---- MODULE Spec2Model ----
(***************************************************************************)
(* Visual snapshot verification of Storybook stories                       *)
(* (.storybook/test-runner.ts): the postVisit hook, the readiness waits,   *)
(* the two theme passes with their three capture modes, the snapshot       *)
(* identifier and the framework's retries.                                 *)
(*                                                                         *)
(* Every `await` of the source is one action: the browser page is owned by *)
(* one task, so a step is atomic and steps never interleave.               *)
(***************************************************************************)
EXTENDS Integers, Sequences, FiniteSets, TLC

VARIABLES
    storyContext,   \* the story's context: id and parameters (read-only)
    browser,        \* the browser engine this task runs in
    page,           \* the DOM state of the task's page
    jest,           \* the framework's settings made by setup()
    defaultTimeout, \* the browser context's default timeout, <<>> until set
    pc,             \* position of the task in postVisit / expectStoryToMatchSnapshot
    themeIdx,       \* index into Themes of the theme pass in progress (0: none yet)
    attempt,        \* number of the current run of the test (1 = first run)
    loaderGoneAfter,\* <<d>>: loaders vanish d ms after the loader wait started
    loaderWaited,   \* <<w>>: the loader wait ended, either way, after w ms
    log,            \* the steps completed in the current attempt, in order
    captures,       \* the screenshots taken in the current attempt, in order
    results,        \* per theme the comparison's outcome in the current attempt
    failure,        \* the error that ended the current attempt, "none" if none
    outcome,        \* the task's final verdict: "none", "pass" or "fail"
    stylePasses,    \* number of component styling passes applied to the page
    triples,        \* identifier check: two (story id, theme, browser) inputs
    identifiers,    \* identifier check: the two identifiers built from them
    config,         \* webpackFinal: <<[storybook, main]>>, the two configurations
    merged          \* webpackFinal: <<c>>, the configuration it returned

vars == <<storyContext, browser, page, jest, defaultTimeout, pc, themeIdx, attempt,
          loaderGoneAfter, loaderWaited, log, captures, results, failure, outcome,
          stylePasses, triples, identifiers, config, merged>>

taskVars == <<storyContext, browser, page, jest, defaultTimeout, pc, themeIdx, attempt,
              loaderGoneAfter, loaderWaited, log, captures, results, failure, outcome,
              stylePasses>>

idVars == <<triples, identifiers>>

webpackVars == <<config, merged>>

-----------------------------------------------------------------------------
(* Bounds of the model *)

\* granularity, in ms, of the times at which the loaders may vanish
Quantum == 500
\* the loaders vanish after 0 .. MaxQuanta quanta
MaxQuanta == 3
\* largest coordinate of a bounding rectangle
MaxCoord == 3
\* most '.Popover' elements on a page
MaxPopovers == 2
\* most '--<name>' parts a story identifier itself ends with
MaxIdSuffixes == 1
\* most module rules in a webpack configuration
MaxRules == 2

-----------------------------------------------------------------------------
(* Constants and types of the source *)

RETRY_TIMES == 3
JEST_TIMEOUT_MS == 15000
PLAYWRIGHT_TIMEOUT_MS == 10000

LOADER_SELECTORS ==
    <<".ant-skeleton", ".Spinner", ".LemonSkeleton", ".LemonTableLoader",
      ".Toastify__toast-container", "[aria-busy=\"true\"]",
      ".SessionRecordingPlayer--buffering", ".Lettermark--unknown">>

SupportedBrowserName == {"chromium", "webkit"}
SnapshotTheme == {"legacy", "light", "dark"}

\* mutant: the dark pass is forgotten
ThemesLightOnly == <<"light">>

\* mutant: the dark pass comes first
ThemesDarkFirst == <<"dark", "light">>

\* the themes expectStoryToMatchSnapshot snapshots, in its order
Themes == <<"light", "dark">>

-----------------------------------------------------------------------------
(* Optional values: <<>> is "not set", <<v>> is "set to v" *)

IsSet(o) == o # <<>>
Get(o, default) == IF o = <<>> THEN default ELSE o[1]

(* testOptions with the defaults the destructuring assignments give them *)

\* mutant: with no snapshotBrowsers option, snapshots are taken in every browser
snapshotBrowsersAllByDefault(ctx) ==
    Get(ctx.testOptions.snapshotBrowsers, SupportedBrowserName)

\* const { snapshotBrowsers = ['chromium'] } = storyContext.parameters?.testOptions ?? {}
snapshotBrowsers(ctx) == Get(ctx.testOptions.snapshotBrowsers, {"chromium"})

\* waitForLoadersToDisappear = true
waitForLoadersToDisappear(ctx) == Get(ctx.testOptions.waitForLoadersToDisappear, TRUE)

\* excludeNavigationFromSnapshot = false
excludeNavigationFromSnapshot(ctx) ==
    Get(ctx.testOptions.excludeNavigationFromSnapshot, FALSE)

\* if (waitForSelector): set, and not the empty string
waitForSelector(ctx) ==
    IsSet(ctx.testOptions.waitForSelector) /\ ctx.testOptions.waitForSelector[1] # ""

\* targetSelector: string = '#storybook-root'
rootSelector == [kind |-> "id", name |-> "storybook-root"]
targetSelector(ctx) == Get(ctx.testOptions.snapshotTargetSelector, rootSelector)

\* mutant: excludeNavigationFromSnapshot selects the scene mode whatever the layout
checkWithoutLayout(ctx) ==
    IF excludeNavigationFromSnapshot(ctx) THEN "expectStoryToMatchSceneSnapshot"
    ELSE IF ctx.layout = <<"fullscreen">> THEN "expectStoryToMatchFullPageSnapshot"
    ELSE "expectStoryToMatchComponentSnapshot"

\* the function `check` is bound to
check(ctx) ==
    IF ctx.layout = <<"fullscreen">>
    THEN IF excludeNavigationFromSnapshot(ctx)
         THEN "expectStoryToMatchSceneSnapshot"
         ELSE "expectStoryToMatchFullPageSnapshot"
    ELSE "expectStoryToMatchComponentSnapshot"

\* the locator each check function hands to expectLocatorToMatchStorySnapshot:
\* the page itself, page.locator('main') or page.locator(targetSelector)
thePage == [kind |-> "page", name |-> ""]
mainLocator == [kind |-> "type", name |-> "main"]

locator(ctx) ==
    CASE check(ctx) = "expectStoryToMatchFullPageSnapshot" -> thePage
      [] check(ctx) = "expectStoryToMatchSceneSnapshot" -> mainLocator
      [] OTHER -> targetSelector(ctx)

\* the screenshot options each check function passes
screenshotOptions(ctx) ==
    IF check(ctx) = "expectStoryToMatchComponentSnapshot"
    THEN [omitBackground |-> TRUE]
    ELSE [omitBackground |-> FALSE]

-----------------------------------------------------------------------------
(* The snapshot identifier *)

\* mutant: the theme is left out of the identifier
customSnapshotIdentifierWithoutTheme(id, theme, brw) ==
    IF brw # "chromium" THEN id \o "--" \o brw ELSE id

\* mutant: the browser is left out of the identifier
customSnapshotIdentifierWithoutBrowser(id, theme, brw) ==
    IF theme # "legacy" THEN id \o "--" \o theme ELSE id

customSnapshotIdentifier(id, theme, brw) ==
    LET withTheme == IF theme # "legacy" THEN id \o "--" \o theme ELSE id
    IN  IF brw # "chromium" THEN withTheme \o "--" \o brw ELSE withTheme

\* toMatchImageSnapshot's options; the threshold 0.01 (1%) is held in hundredths
\* of a percent
matchOptions ==
    [comparisonMethod |-> "ssim", failureThreshold |-> 100,
     failureThresholdType |-> "percent"]

\* mutant: a dissimilarity equal to the threshold fails
imageMatchesBelowThreshold(dissimilarity) ==
    dissimilarity < matchOptions.failureThreshold

\* the comparison passes unless the dissimilarity exceeds the threshold
imageMatches(dissimilarity) == dissimilarity <= matchOptions.failureThreshold

\* dissimilarities a comparison may measure: none, the threshold, just above it
Dissimilarities ==
    {0, matchOptions.failureThreshold, matchOptions.failureThreshold + 1}

-----------------------------------------------------------------------------
(* The DOM *)

\* A selector is held parsed: '.x' is [kind |-> "class", name |-> "x"], '#x' is
\* [kind |-> "id", ...] and a bare name is a type selector, matching the tag name.
Matches(sel, el) ==
    CASE sel.kind = "class" -> sel.name \in el.classes
      [] sel.kind = "id" -> sel.name = el.id
      [] sel.kind = "type" -> sel.name = el.tag
      [] OTHER -> FALSE

\* the overflow an element is rendered with: its style attribute wins over the
\* stylesheet
overflow(el) == IF el.style = "overflow: visible;" THEN "visible" ELSE el.cssOverflow

\* whether a locator finds something to take a screenshot of
resolves(loc, p) ==
    \/ loc = thePage
    \/ loc = rootSelector /\ IsSet(p.root)
    \/ \E i \in DOMAIN p.elements : Matches(loc, p.elements[i])

\* the selector of expectStoryToMatchSceneSnapshot: 'Navigation3000', no dot
navigationSelector == [kind |-> "type", name |-> "Navigation3000"]

\* the bounding rectangle of the root element: it sits at (left, top) in the
\* normal flow; as an inline-block it hugs its content unless style.width /
\* style.height give it a size, and it grows to the right and downwards
getBoundingClientRect(rootEl) ==
    LET w == Get(rootEl.width, rootEl.natW)
        h == Get(rootEl.height, rootEl.natH)
    IN  [left |-> rootEl.left, top |-> rootEl.top,
         right |-> rootEl.left + w, bottom |-> rootEl.top + h]

\* the body of the forEach callback for one popover
expandForPopover(rootEl, popover) ==
    LET cur == getBoundingClientRect(rootEl)
        w1 == IF popover.right > cur.right THEN <<popover.right>> ELSE rootEl.width
        h1 == IF popover.bottom > cur.bottom THEN <<popover.bottom>> ELSE rootEl.height
        h2 == IF popover.top < cur.top THEN <<(-popover.top) + cur.bottom>> ELSE h1
        w2 == IF popover.left < cur.left THEN <<(-popover.left) + cur.right>> ELSE w1
    IN  [rootEl EXCEPT !.width = w2, !.height = h2]

\* document.querySelectorAll('.Popover').forEach(...), in document order
RECURSIVE expandForPopovers(_, _)
expandForPopovers(rootEl, popovers) ==
    IF popovers = <<>> THEN rootEl
    ELSE expandForPopovers(expandForPopover(rootEl, Head(popovers)), Tail(popovers))

\* mutant: the legacy theme gets the themed background too
bodyBackgroundAlwaysThemed(theme) == "var(--bg-3000)"

\* the background the component styling gives the body
bodyBackground(theme) == IF theme = "legacy" THEN "transparent" ELSE "var(--bg-3000)"

\* the function evaluated in the page by expectStoryToMatchComponentSnapshot,
\* for a page that has the root element
componentStyling(p, theme) ==
    LET hugged == [p.root[1] EXCEPT !.display = "inline-block"]
    IN  [p EXCEPT !.root = <<expandForPopovers(hugged, p.popovers)>>,
                  !.background = bodyBackground(theme)]

\* the function evaluated in the page by expectStoryToMatchSceneSnapshot
sceneStyling(p) ==
    [p EXCEPT !.elements =
        LET hit == {i \in DOMAIN p.elements : Matches(navigationSelector, p.elements[i])}
        IN  IF hit = {} THEN p.elements
            ELSE LET first == CHOOSE i \in hit : \A j \in hit : i <= j
                 IN  [p.elements EXCEPT ![first].style = "overflow: visible;"]]


-----------------------------------------------------------------------------
(* The inputs: story contexts, pages *)

TestOptions ==
    [snapshotBrowsers : {<<>>, <<{"webkit"}>>, <<{"chromium", "webkit"}>>},
     waitForLoadersToDisappear : {<<>>, <<TRUE>>, <<FALSE>>},
     waitForSelector : {<<>>, <<".ready">>},
     excludeNavigationFromSnapshot : {<<>>, <<TRUE>>, <<FALSE>>},
     snapshotTargetSelector : {<<>>, <<[kind |-> "class", name |-> "target"]>>}]

StoryContexts ==
    [id : {"scenes-app--dashboard"},
     layout : {<<>>, <<"fullscreen">>, <<"centered">>},
     testOptions : TestOptions]

navigationEl ==
    [tag |-> "div", id |-> "", classes |-> {"Navigation3000"}, style |-> "",
     cssOverflow |-> "hidden"]
mainEl ==
    [tag |-> "main", id |-> "", classes |-> {}, style |-> "", cssOverflow |-> "visible"]
targetEl ==
    [tag |-> "div", id |-> "", classes |-> {"target"}, style |-> "",
     cssOverflow |-> "visible"]

Rect(l, t, r, b) == [left |-> l, top |-> t, right |-> r, bottom |-> b]

\* a root element at (l, t) whose content is w wide and h high, not yet styled
RootEl(l, t, w, h) ==
    [left |-> l, top |-> t, natW |-> w, natH |-> h, display |-> "block",
     width |-> <<>>, height |-> <<>>]

Page(root, popovers, elements) ==
    [bodyClasses |-> {}, theme |-> "", background |-> "", root |-> root,
     popovers |-> popovers, elements |-> elements]

\* the pages of the task model: a scene with navigation, a bare component, a
\* component with a popover to its right and a narrower target, a page whose
\* root element is missing
Pages ==
    {Page(<<RootEl(0, 0, 3, 3)>>, <<>>, <<navigationEl, mainEl>>),
     Page(<<RootEl(1, 1, 1, 1)>>, <<>>, <<>>),
     Page(<<RootEl(1, 1, 1, 1)>>, <<Rect(1, 2, 3, 3)>>, <<targetEl>>),
     Page(<<>>, <<>>, <<>>)}


-----------------------------------------------------------------------------
(* The task: setup, postVisit, expectStoryToMatchSnapshot and the retries *)

\* the values the task's own variables have when a run of the test starts
NoResults == <<>>

\* mutant: the loader wait is left with the context's default timeout
loaderWaitOptionsDefaultTimeout ==
    [state |-> "detached", timeout |-> PLAYWRIGHT_TIMEOUT_MS]

\* the options of the loader wait
loaderWaitOptions == [state |-> "detached", timeout |-> 1000]

\* how a wait whose condition comes true after d ms ends under a timeout t:
\* TRUE is "resolved"; at d = t the two timers race
waitResolves(d, t) ==
    IF d < t THEN {TRUE} ELSE IF d > t THEN {FALSE} ELSE BOOLEAN

currentTheme == Themes[themeIdx]

\* mutant: the loader wait is left out
afterStopAnimationsWithoutLoaderWait ==
    IF waitForSelector(storyContext) THEN "waitForSelector" ELSE "waitForTimeout"

\* the step after the animation-stopping evaluate, after the loader wait, ...
afterStopAnimations ==
    IF waitForLoadersToDisappear(storyContext) THEN "waitForLoaders"
    ELSE IF waitForSelector(storyContext) THEN "waitForSelector"
    ELSE "waitForTimeout"

afterLoaders ==
    IF waitForSelector(storyContext) THEN "waitForSelector" ELSE "waitForTimeout"

\* what `await check(...)` does first in each mode
checkEntry ==
    IF check(storyContext) = "expectStoryToMatchFullPageSnapshot"
    THEN "screenshot" ELSE "styling"

\* a rejected await or a throw: the error leaves expectStoryToMatchSnapshot and
\* postVisit, nothing catches it
Throw(error) ==
    /\ pc' = "failed"
    /\ failure' = error

InitTask ==
    /\ storyContext \in StoryContexts
    /\ browser \in SupportedBrowserName
    /\ page \in Pages
    /\ jest = [retryTimes |-> 0, timeout |-> 5000, matcher |-> FALSE]
    /\ defaultTimeout = <<>>
    /\ pc = "setup"
    /\ themeIdx = 0
    /\ attempt = 1
    /\ loaderGoneAfter = <<>>
    /\ loaderWaited = <<>>
    /\ log = <<>>
    /\ captures = <<>>
    /\ results = NoResults
    /\ failure = "none"
    /\ outcome = "none"
    /\ stylePasses = 0

Init ==
    /\ InitTask
    /\ triples = <<>>
    /\ identifiers = <<>>
    /\ config = <<>>
    /\ merged = <<>>

\* mutant: one retry too many
SetupOneRetryMore ==
    /\ pc = "setup"
    /\ jest' = [retryTimes |-> RETRY_TIMES + 1, timeout |-> JEST_TIMEOUT_MS,
                matcher |-> TRUE]
    /\ pc' = "getStoryContext"
    /\ UNCHANGED <<storyContext, browser, page, defaultTimeout, themeIdx, attempt,
                   loaderGoneAfter, loaderWaited, log, captures, results, failure, outcome,
                   stylePasses, idVars, webpackVars>>

\* setup(): once per worker, before any test
Setup ==
    /\ pc = "setup"
    /\ jest' = [retryTimes |-> RETRY_TIMES, timeout |-> JEST_TIMEOUT_MS, matcher |-> TRUE]
    /\ pc' = "getStoryContext"
    /\ UNCHANGED <<storyContext, browser, page, defaultTimeout, themeIdx, attempt,
                   loaderGoneAfter, loaderWaited, log, captures, results, failure, outcome,
                   stylePasses, idVars, webpackVars>>

\* postVisit, up to its first await: const storyContext = await
\* getStoryContext(page, context) resolves with the story's context
GetStoryContext ==
    /\ pc = "getStoryContext"
    /\ log' = Append(log, "getStoryContext")
    /\ pc' = "postVisit"
    /\ UNCHANGED <<storyContext, browser, page, jest, defaultTimeout, themeIdx, attempt,
                   loaderGoneAfter, loaderWaited, captures, results, failure, outcome,
                   stylePasses, idVars, webpackVars>>

\* await getStoryContext(page, context) rejects: postVisit throws before it has
\* installed the default timeout or looked at the browser
GetStoryContextRejects ==
    /\ pc = "getStoryContext"
    /\ Throw("getStoryContext failed")
    /\ UNCHANGED <<storyContext, browser, page, jest, defaultTimeout, themeIdx, attempt,
                   loaderGoneAfter, loaderWaited, log, captures, results, outcome,
                   stylePasses, idVars, webpackVars>>

\* mutant: the default timeout is not installed on the browser context
PostVisitWithoutTimeout ==
    /\ pc = "postVisit"
    /\ IF browser \in snapshotBrowsers(storyContext)
       THEN /\ pc' = "waitForPageReady"
            /\ outcome' = outcome
       ELSE /\ pc' = "done"
            /\ outcome' = "pass"
    /\ log' = Append(log, "postVisit")
    /\ UNCHANGED <<storyContext, browser, page, jest, defaultTimeout, themeIdx, attempt,
                   loaderGoneAfter, loaderWaited, captures, results, failure,
                   stylePasses, idVars, webpackVars>>

\* postVisit(page, context), from the resolution of getStoryContext to the call
\* of expectStoryToMatchSnapshot or the return
PostVisit ==
    /\ pc = "postVisit"
    /\ defaultTimeout' = <<PLAYWRIGHT_TIMEOUT_MS>>
    /\ IF browser \in snapshotBrowsers(storyContext)
       THEN /\ pc' = "waitForPageReady"
            /\ outcome' = outcome
       ELSE /\ pc' = "done"
            /\ outcome' = "pass"
    /\ log' = Append(log, "postVisit")
    /\ UNCHANGED <<storyContext, browser, page, jest, themeIdx, attempt,
                   loaderGoneAfter, loaderWaited, captures, results, failure, stylePasses, idVars, webpackVars>>

\* await waitForPageReady(page)
WaitForPageReady ==
    /\ pc = "waitForPageReady"
    /\ \E ready \in BOOLEAN :
        IF ready
        THEN /\ pc' = "stopAnimations"
             /\ log' = Append(log, "waitForPageReady")
             /\ failure' = failure
        ELSE /\ Throw("TimeoutError")
             /\ log' = log
    /\ UNCHANGED <<storyContext, browser, page, jest, defaultTimeout, themeIdx, attempt,
                   loaderGoneAfter, loaderWaited, captures, results, outcome, stylePasses, idVars, webpackVars>>

\* document.body.classList.add('storybook-test-runner')
StopAnimations ==
    /\ pc = "stopAnimations"
    /\ page' = [page EXCEPT !.bodyClasses = @ \cup {"storybook-test-runner"}]
    /\ log' = Append(log, "stopAnimations")
    /\ pc' = afterStopAnimations
    /\ UNCHANGED <<storyContext, browser, jest, defaultTimeout, themeIdx, attempt,
                   loaderGoneAfter, loaderWaited, captures, results, failure, outcome, stylePasses,
                   idVars, webpackVars>>

\* await page.waitForSelector(LOADER_SELECTORS.join(','), { state: 'detached', timeout: 1000 })
WaitForLoaders ==
    /\ pc = "waitForLoaders"
    /\ \E k \in 0..MaxQuanta :
        /\ loaderGoneAfter' = <<k * Quantum>>
        /\ \E resolved \in waitResolves(k * Quantum, loaderWaitOptions.timeout) :
            IF resolved
            THEN /\ pc' = afterLoaders
                 /\ log' = Append(log, "waitForLoaders")
                 /\ failure' = failure
                 /\ loaderWaited' = <<k * Quantum>>
            ELSE /\ Throw("TimeoutError")
                 /\ log' = log
                 /\ loaderWaited' = <<loaderWaitOptions.timeout>>
    /\ UNCHANGED <<storyContext, browser, page, jest, defaultTimeout, themeIdx, attempt,
                   captures, results, outcome, stylePasses, idVars, webpackVars>>

\* await page.waitForSelector(waitForSelector)
WaitForSelector ==
    /\ pc = "waitForSelector"
    /\ \E found \in BOOLEAN :
        IF found
        THEN /\ pc' = "waitForTimeout"
             /\ log' = Append(log, "waitForSelector")
             /\ failure' = failure
        ELSE /\ Throw("TimeoutError")
             /\ log' = log
    /\ UNCHANGED <<storyContext, browser, page, jest, defaultTimeout, themeIdx, attempt,
                   loaderGoneAfter, loaderWaited, captures, results, outcome, stylePasses, idVars, webpackVars>>

\* await page.waitForTimeout(400)
WaitForTimeout ==
    /\ pc = "waitForTimeout"
    /\ pc' = "waitForImages"
    /\ log' = Append(log, "waitForTimeout")
    /\ UNCHANGED <<storyContext, browser, page, jest, defaultTimeout, themeIdx, attempt,
                   loaderGoneAfter, loaderWaited, captures, results, failure, outcome, stylePasses,
                   idVars, webpackVars>>

\* await page.waitForFunction(() => every image is complete)
WaitForImages ==
    /\ pc = "waitForImages"
    /\ \E complete \in BOOLEAN :
        IF complete
        THEN /\ pc' = "setTheme"
             /\ log' = Append(log, "waitForImages")
             /\ failure' = failure
        ELSE /\ Throw("TimeoutError")
             /\ log' = log
    /\ UNCHANGED <<storyContext, browser, page, jest, defaultTimeout, themeIdx, attempt,
                   loaderGoneAfter, loaderWaited, captures, results, outcome, stylePasses, idVars, webpackVars>>


\* mutant: the pass is entered without setting the body's theme attribute
SetThemeWithoutAttribute ==
    /\ pc = "setTheme"
    /\ themeIdx < Len(Themes)
    /\ themeIdx' = themeIdx + 1
    /\ page' = [page EXCEPT
                  !.bodyClasses = IF themeIdx = 0 THEN @ \cup {"posthog-3000"} ELSE @]
    /\ log' = Append(log, "setTheme")
    /\ pc' = checkEntry
    /\ UNCHANGED <<storyContext, browser, jest, defaultTimeout, attempt, loaderGoneAfter, loaderWaited,
                   captures, results, failure, outcome, stylePasses, idVars, webpackVars>>

\* document.body.setAttribute('theme', ...), with classList.add('posthog-3000')
\* before the light pass
SetTheme ==
    /\ pc = "setTheme"
    /\ themeIdx < Len(Themes)
    /\ themeIdx' = themeIdx + 1
    /\ page' = [page EXCEPT
                  !.theme = Themes[themeIdx + 1],
                  !.bodyClasses = IF themeIdx = 0 THEN @ \cup {"posthog-3000"} ELSE @]
    /\ log' = Append(log, "setTheme")
    /\ pc' = checkEntry
    /\ UNCHANGED <<storyContext, browser, jest, defaultTimeout, attempt, loaderGoneAfter, loaderWaited,
                   captures, results, failure, outcome, stylePasses, idVars, webpackVars>>

\* expectStoryToMatchSceneSnapshot: the evaluate before the screenshot
SceneStyling ==
    /\ pc = "styling"
    /\ check(storyContext) = "expectStoryToMatchSceneSnapshot"
    /\ page' = sceneStyling(page)
    /\ log' = Append(log, "styling")
    /\ pc' = "screenshot"
    /\ UNCHANGED <<storyContext, browser, jest, defaultTimeout, themeIdx, attempt,
                   loaderGoneAfter, loaderWaited, captures, results, failure, outcome, stylePasses,
                   idVars, webpackVars>>

\* expectStoryToMatchComponentSnapshot: the evaluate before the screenshot
ComponentStyling ==
    /\ pc = "styling"
    /\ check(storyContext) = "expectStoryToMatchComponentSnapshot"
    /\ IsSet(page.root)
    /\ page' = componentStyling(page, currentTheme)
    /\ stylePasses' = stylePasses + 1
    /\ log' = Append(log, "styling")
    /\ pc' = "screenshot"
    /\ UNCHANGED <<storyContext, browser, jest, defaultTimeout, themeIdx, attempt,
                   loaderGoneAfter, loaderWaited, captures, results, failure, outcome, idVars, webpackVars>>

\* mutant: a missing root element is skipped (rootEl?.style...) instead of thrown
ComponentStylingSkipsMissingRoot ==
    /\ pc = "styling"
    /\ check(storyContext) = "expectStoryToMatchComponentSnapshot"
    /\ ~IsSet(page.root)
    /\ pc' = "screenshot"
    /\ log' = Append(log, "styling")
    /\ UNCHANGED <<storyContext, browser, page, jest, defaultTimeout, themeIdx, attempt,
                   loaderGoneAfter, loaderWaited, captures, results, failure, outcome, stylePasses,
                   idVars, webpackVars>>

\* if (!rootEl) { throw new Error('Could not find root element') }
ComponentStylingThrows ==
    /\ pc = "styling"
    /\ check(storyContext) = "expectStoryToMatchComponentSnapshot"
    /\ ~IsSet(page.root)
    /\ Throw("Could not find root element")
    /\ UNCHANGED <<storyContext, browser, page, jest, defaultTimeout, themeIdx, attempt,
                   loaderGoneAfter, loaderWaited, log, captures, results, outcome, stylePasses,
                   idVars, webpackVars>>

\* const image = await locator.screenshot({ ...options })
Screenshot ==
    /\ pc = "screenshot"
    /\ resolves(locator(storyContext), page)
    /\ captures' = Append(captures,
                     [locator |-> locator(storyContext),
                      options |-> screenshotOptions(storyContext),
                      theme |-> currentTheme,
                      page |-> page,
                      log |-> log])
    /\ log' = Append(log, "screenshot")
    /\ pc' = "compare"
    /\ UNCHANGED <<storyContext, browser, page, jest, defaultTimeout, themeIdx, attempt,
                   loaderGoneAfter, loaderWaited, results, failure, outcome, stylePasses, idVars, webpackVars>>

\* the locator finds no element within the default timeout
ScreenshotTimeout ==
    /\ pc = "screenshot"
    /\ ~resolves(locator(storyContext), page)
    /\ Throw("TimeoutError")
    /\ UNCHANGED <<storyContext, browser, page, jest, defaultTimeout, themeIdx, attempt,
                   loaderGoneAfter, loaderWaited, log, captures, results, outcome, stylePasses,
                   idVars, webpackVars>>

\* expect(image).toMatchImageSnapshot({ customSnapshotIdentifier, ... }): with no
\* stored reference the image becomes the reference and the comparison passes
Compare ==
    /\ pc = "compare"
    /\ \E hasReference \in BOOLEAN :
       \E dissimilarity \in (IF hasReference THEN Dissimilarities ELSE {0}) :
        LET pass == ~hasReference \/ imageMatches(dissimilarity)
            result == [theme |-> currentTheme,
                       identifier |->
                           customSnapshotIdentifier(storyContext.id, currentTheme, browser),
                       captured |-> Len(captures),
                       measured |-> IF hasReference THEN <<dissimilarity>> ELSE <<>>,
                       pass |-> pass]
        IN  /\ results' = Append(results, result)
            /\ log' = Append(log, "compare")
            /\ IF ~pass
               THEN /\ Throw("SnapshotMismatch")
                    /\ outcome' = outcome
               ELSE /\ failure' = failure
                    /\ IF themeIdx < Len(Themes)
                       THEN /\ pc' = "setTheme"
                            /\ outcome' = outcome
                       ELSE /\ pc' = "done"
                            /\ outcome' = "pass"
    /\ UNCHANGED <<storyContext, browser, page, jest, defaultTimeout, themeIdx, attempt,
                   loaderGoneAfter, loaderWaited, captures, stylePasses, idVars, webpackVars>>

\* jest.retryTimes(n): a failed test is run again, from its start, up to n times
Retry ==
    /\ pc = "failed"
    /\ attempt <= jest.retryTimes
    /\ attempt' = attempt + 1
    /\ pc' = "getStoryContext"
    /\ themeIdx' = 0
    /\ loaderGoneAfter' = <<>>
    /\ loaderWaited' = <<>>
    /\ log' = <<>>
    /\ captures' = <<>>
    /\ results' = NoResults
    /\ failure' = "none"
    /\ UNCHANGED <<storyContext, browser, page, jest, defaultTimeout, outcome,
                   stylePasses, idVars, webpackVars>>

\* the retries are used up: the test has failed
GiveUp ==
    /\ pc = "failed"
    /\ attempt > jest.retryTimes
    /\ pc' = "done"
    /\ outcome' = "fail"
    /\ UNCHANGED <<storyContext, browser, page, jest, defaultTimeout, themeIdx, attempt,
                   loaderGoneAfter, loaderWaited, log, captures, results, failure, stylePasses,
                   idVars, webpackVars>>

Next ==
    \/ Setup
    \/ GetStoryContext
    \/ GetStoryContextRejects
    \/ PostVisit
    \/ WaitForPageReady
    \/ StopAnimations
    \/ WaitForLoaders
    \/ WaitForSelector
    \/ WaitForTimeout
    \/ WaitForImages
    \/ SetTheme
    \/ SceneStyling
    \/ ComponentStyling
    \/ ComponentStylingThrows
    \/ Screenshot
    \/ ScreenshotTimeout
    \/ Compare
    \/ Retry
    \/ GiveUp

Spec == Init /\ [][Next]_vars

\* every step of a task is taken by the single thread that runs it
FairSpec == Spec /\ WF_vars(Next)


-----------------------------------------------------------------------------
(* The snapshot identifier as a function: two inputs, two identifiers *)

\* a story whose options are all unset; the function checks below do not run the task
defaultContext ==
    [id |-> "scenes-app--dashboard", layout |-> <<>>,
     testOptions |-> [snapshotBrowsers |-> <<>>, waitForLoadersToDisappear |-> <<>>,
                      waitForSelector |-> <<>>, excludeNavigationFromSnapshot |-> <<>>,
                      snapshotTargetSelector |-> <<>>]]

TaskNotRun(p) ==
    /\ storyContext = defaultContext
    /\ browser = "chromium"
    /\ page = p
    /\ jest = [retryTimes |-> 0, timeout |-> 5000, matcher |-> FALSE]
    /\ defaultTimeout = <<>>
    /\ pc = "evaluate"
    /\ themeIdx = 0
    /\ attempt = 1
    /\ loaderGoneAfter = <<>>
    /\ loaderWaited = <<>>
    /\ log = <<>>
    /\ captures = <<>>
    /\ results = NoResults
    /\ failure = "none"
    /\ outcome = "none"
    /\ stylePasses = 0

\* story identifiers: a name, followed by up to MaxIdSuffixes parts '--<word>'
RECURSIVE IdsWithSuffixes(_)
IdsWithSuffixes(n) ==
    IF n = 0 THEN {"a", "b"}
    ELSE LET shorter == IdsWithSuffixes(n - 1)
         IN  shorter \cup {id \o "--" \o word :
                             id \in shorter, word \in {"light", "dark", "webkit"}}

StoryIds == IdsWithSuffixes(MaxIdSuffixes)

\* the inputs of expectLocatorToMatchStorySnapshot: its callers pass the theme of
\* the light pass or of the dark pass, never 'legacy'
Triples == StoryIds \X {Themes[i] : i \in 1..Len(Themes)} \X SupportedBrowserName

InitIdentifier ==
    /\ TaskNotRun(Page(<<>>, <<>>, <<>>))
    /\ triples \in Triples \X Triples
    /\ identifiers = <<>>
    /\ config = <<>>
    /\ merged = <<>>

BuildIdentifiers ==
    /\ identifiers = <<>>
    /\ triples # <<>>
    /\ identifiers' =
        [i \in 1..2 |->
            customSnapshotIdentifier(triples[i][1], triples[i][2], triples[i][3])]
    /\ UNCHANGED <<taskVars, triples, webpackVars>>

NextIdentifier == BuildIdentifiers

SpecIdentifier == InitIdentifier /\ [][NextIdentifier]_vars

-----------------------------------------------------------------------------
(* The component styling as a function of the root and the popover rectangles *)

Coords == 0..MaxCoord

Rects ==
    {Rect(l, t, r, b) : l \in Coords, t \in Coords, r \in Coords, b \in Coords}

ProperRects == {q \in Rects : q.left < q.right /\ q.top < q.bottom}

RootEls ==
    {RootEl(q.left, q.top, q.right - q.left, q.bottom - q.top) : q \in ProperRects}

PopoverLists == UNION {[1..n -> ProperRects] : n \in 0..MaxPopovers}

InitStyling ==
    /\ \E rootEl \in RootEls, popovers \in PopoverLists :
         TaskNotRun(Page(<<rootEl>>, popovers, <<>>))
    /\ triples = <<>>
    /\ identifiers = <<>>
    /\ config = <<>>
    /\ merged = <<>>

\* the styling of the light pass, then that of the dark pass, on the same page
ApplyComponentStyling ==
    /\ pc = "evaluate"
    /\ stylePasses < Len(Themes)
    /\ IsSet(page.root)
    /\ page' = componentStyling(page, Themes[stylePasses + 1])
    /\ stylePasses' = stylePasses + 1
    /\ UNCHANGED <<storyContext, browser, jest, defaultTimeout, pc, themeIdx, attempt,
                   loaderGoneAfter, loaderWaited, log, captures, results, failure, outcome, idVars, webpackVars>>

NextStyling == ApplyComponentStyling

SpecStyling == InitStyling /\ [][NextStyling]_vars


-----------------------------------------------------------------------------
(* webpackFinal of the Storybook configuration, as a function of the two
   configurations it merges *)

\* s.includes(sub), on strings held as sequences of characters
includes(str, sub) ==
    \E i \in 1..(Len(str) - Len(sub) + 1) : SubSeq(str, i, i + Len(sub) - 1) = sub

\* 'test' in rule && rule.test.toString().includes('.mdx'); a rule holds its test
\* in string form, <<>> when it has none
isMdxRule(rule) == IsSet(rule.test) /\ includes(rule.test[1], <<".", "m", "d", "x">>)

\* rules.filter(pred), keeping the order
RECURSIVE filter(_)
filter(rules) ==
    IF rules = <<>> THEN <<>>
    ELSE (IF isMdxRule(Head(rules)) THEN <<Head(rules)>> ELSE <<>>) \o filter(Tail(rules))

\* { ...a, ...b } on objects held as functions: b's entries win
spread(a, b) ==
    [k \in DOMAIN a \cup DOMAIN b |-> IF k \in DOMAIN b THEN b[k] ELSE a[k]]

\* config.module?.rules?.filter(...) ?? []
storybookMdxRules(cfg) ==
    IF IsSet(cfg.module) /\ IsSet(cfg.module[1].rules)
    THEN filter(cfg.module[1].rules[1]) ELSE <<>>

\* the configuration webpackFinal returns for Storybook's `cfg` and the project's
\* mainConfig = createEntry('main')
webpackFinal(cfg, mainConfig) ==
    [resolve |-> [extensions |-> cfg.resolve.extensions \o mainConfig.resolve.extensions,
                  alias |-> spread(cfg.resolve.alias, mainConfig.resolve.alias)],
     module |-> [rules |-> mainConfig.module.rules \o storybookMdxRules(cfg)]]

\* the rules of the inputs: an MDX rule, a TypeScript rule, a Markdown rule whose
\* test names mdx without containing '.mdx', a rule without a test
WebpackRules ==
    {[use |-> "mdx-loader", test |-> <<<<"/", "\\", ".", "m", "d", "x", "$", "/">>>>],
     [use |-> "babel-loader", test |-> <<<<"/", "\\", ".", "t", "s", "x", "?", "$", "/">>>>],
     [use |-> "markdown-loader", test |-> <<<<"/", "\\", ".", "(", "m", "d", "|", "m", "d", "x", ")", "$", "/">>>>],
     [use |-> "asset", test |-> <<>>]}

RuleLists == UNION {[1..n -> WebpackRules] : n \in 0..MaxRules}

Resolves ==
    {[extensions |-> <<".mjs">>, alias |-> <<>>],
     [extensions |-> <<".mjs">>, alias |-> [public |-> "storybook/public"]]}

StorybookConfigs ==
    [resolve : Resolves,
     module : {<<>>, <<[rules |-> <<>>]>>} \cup {<<[rules |-> <<r>>]>> : r \in RuleLists}]

MainConfigs ==
    [resolve : {[extensions |-> <<".ts">>, alias |-> [public |-> "frontend/public"]]},
     module : {[rules |-> r] : r \in RuleLists}]

InitWebpack ==
    /\ TaskNotRun(Page(<<>>, <<>>, <<>>))
    /\ triples = <<>>
    /\ identifiers = <<>>
    /\ \E cfg \in StorybookConfigs, mainConfig \in MainConfigs :
         config = <<[storybook |-> cfg, main |-> mainConfig]>>
    /\ merged = <<>>

WebpackFinal ==
    /\ config # <<>>
    /\ merged = <<>>
    /\ merged' = <<webpackFinal(config[1].storybook, config[1].main)>>
    /\ UNCHANGED <<taskVars, idVars, config>>

NextWebpack == WebpackFinal

SpecWebpack == InitWebpack /\ [][NextWebpack]_vars


-----------------------------------------------------------------------------
(* The claims *)

\* C1: the snapshot identifier is context.id, then '--<theme>' unless the theme
\* is 'legacy', then '--<browser>' unless the browser is chromium, and it is
\* injective over the (story identifier, theme, browser) triples that
\* expectLocatorToMatchStorySnapshot is called with: two distinct triples, of one
\* task or of two, never get the same identifier string.
C1_IdentifierInjective ==
    /\ (identifiers # <<>> /\ triples[1] # triples[2])
            => identifiers[1] # identifiers[2]
    /\ \A id \in StoryIds :
        /\ customSnapshotIdentifier(id, "legacy", "chromium") = id
        /\ \A theme \in SnapshotTheme \ {"legacy"} :
              customSnapshotIdentifier(id, theme, "chromium") = id \o "--" \o theme
        /\ \A brw \in SupportedBrowserName \ {"chromium"} :
            /\ customSnapshotIdentifier(id, "legacy", brw) = id \o "--" \o brw
            /\ \A theme \in SnapshotTheme \ {"legacy"} :
                  customSnapshotIdentifier(id, theme, brw) =
                      id \o "--" \o theme \o "--" \o brw

\* two tasks whose triples differ in every part and whose identifiers nearly
\* coincide: one story's identifier ends with the other task's browser
C1_Witness ==
    /\ identifiers # <<>>
    /\ triples[1][1] = triples[2][1] \o "--webkit"
    /\ triples[1][3] = "chromium"
    /\ triples[2][3] = "webkit"
    /\ triples[1][2] # triples[2][2]
    /\ identifiers[1] # identifiers[2]

\* the navigation container of a page: the elements of class Navigation3000
NavigationOf(p) ==
    {i \in DOMAIN p.elements : "Navigation3000" \in p.elements[i].classes}

\* C2: in scene mode every capture is of the 'main' locator, never of the page,
\* and is taken with the navigation container's overflow forced to visible.
C2_SceneCapture ==
    check(storyContext) = "expectStoryToMatchSceneSnapshot" =>
        \A c \in 1..Len(captures) :
            /\ captures[c].locator = mainLocator
            /\ \A i \in NavigationOf(captures[c].page) :
                 overflow(captures[c].page.elements[i]) = "visible"

\* the root element's box before any styling: at its place, hugging its content
naturalRect(rootEl) ==
    Rect(rootEl.left, rootEl.top, rootEl.left + rootEl.natW, rootEl.top + rootEl.natH)

\* the box `outer` reaches at least as far as `inner` in every direction in which
\* `inner` reaches beyond `before`
CoversWhereExceeding(outer, inner, before) ==
    /\ inner.right > before.right => outer.right >= inner.right
    /\ inner.bottom > before.bottom => outer.bottom >= inner.bottom
    /\ inner.top < before.top => outer.top <= inner.top
    /\ inner.left < before.left => outer.left <= inner.left

\* C3: after the component styling, the root element's box contains every
\* popover's box in each direction in which the popover exceeded the root's box.
C3_RootContainsPopovers ==
    (stylePasses = 1 /\ IsSet(page.root)) =>
        \A i \in 1..Len(page.popovers) :
            CoversWhereExceeding(getBoundingClientRect(page.root[1]),
                                 page.popovers[i], naturalRect(page.root[1]))


\* C4 as stated: the dark comparison is performed and decided whatever the
\* outcome of the light comparison, so an attempt that ended after a light
\* comparison has a dark comparison too.
C4_DarkDecidedWhateverLight ==
    (pc \in {"failed", "done"} /\ Len(results) >= 1) => Len(results) = Len(Themes)

\* C4, amended: the theme passes are separate comparisons, each under its own
\* snapshot identifier, made one after the other (the light comparison is over
\* before the dark screenshot is taken); the dark comparison is made only when
\* the light comparison passed, and a light mismatch ends the attempt.
C4_ThemePassesInSequence ==
    /\ Len(results) <= 2
    /\ Len(captures) <= Len(results) + 1
    /\ \A i \in 1..Len(results) :
        /\ results[i].theme = <<"light", "dark">>[i]
        /\ results[i].captured = i
        /\ \A j \in 1..Len(results) : i # j => results[i].identifier # results[j].identifier
    /\ Len(results) = 2 => results[1].pass
    /\ (Len(results) >= 1 /\ ~results[1].pass) =>
            /\ pc \in {"failed", "done"}
            /\ failure = "SnapshotMismatch"
            /\ Len(captures) = 1

C4_Witness ==
    /\ pc = "failed"
    /\ Len(results) = 1
    /\ ~results[1].pass
    /\ captures[1].theme = "light"

\* the verification ran for this story and browser
Verified == browser \in snapshotBrowsers(storyContext)

BothComparisonsPassed ==
    /\ Len(results) = 2
    /\ results[1].theme = "light" /\ results[1].pass
    /\ results[2].theme = "dark" /\ results[2].pass

\* C5: the verification of a (story, browser) pair passes if and only if both the
\* light and the dark comparison pass; any failure in either pass, of whatever
\* kind, makes the attempt fail.
C5_PassIffBothPass ==
    Verified =>
        /\ outcome = "pass" <=> (pc = "done" /\ failure = "none" /\ BothComparisonsPassed)
        /\ failure # "none" => (pc \in {"failed", "done"} /\ outcome # "pass")
        /\ (\E i \in 1..Len(results) : ~results[i].pass) => failure = "SnapshotMismatch"

C5_Witness ==
    /\ Verified
    /\ outcome = "pass"
    /\ BothComparisonsPassed
    /\ attempt > 1

\* C6: with waitForLoadersToDisappear true (the default), loaders still present
\* 1000 ms after the loader wait started make the attempt fail with a timeout
\* before any screenshot; with the option false there is no loader wait.
C6_LoaderTimeout ==
    /\ (waitForLoadersToDisappear(storyContext) /\ IsSet(loaderGoneAfter)
            /\ loaderGoneAfter[1] > 1000) =>
                /\ pc \in {"failed", "done"}
                /\ failure = "TimeoutError"
                /\ outcome # "pass"
                /\ captures = <<>>
                /\ results = <<>>
    /\ (waitForLoadersToDisappear(storyContext) /\ Len(captures) > 0) =>
            IsSet(loaderGoneAfter)
    /\ ~waitForLoadersToDisappear(storyContext) =>
            /\ loaderGoneAfter = <<>>
            /\ pc # "waitForLoaders"
            /\ \A i \in 1..Len(log) : log[i] # "waitForLoaders"

C6_Witness ==
    /\ waitForLoadersToDisappear(storyContext)
    /\ IsSet(loaderGoneAfter) /\ loaderGoneAfter[1] > 1000
    /\ pc = "failed"
    /\ failure = "TimeoutError"

\* C7: in component mode with no element 'storybook-root' the attempt fails in the
\* styling step of the first theme pass with the error 'Could not find root
\* element'; no screenshot is taken and no second theme pass starts.
C7_MissingRoot ==
    (check(storyContext) = "expectStoryToMatchComponentSnapshot" /\ ~IsSet(page.root)) =>
        /\ captures = <<>>
        /\ results = <<>>
        /\ themeIdx <= 1
        /\ pc \notin {"screenshot", "compare"}
        /\ themeIdx = 1 => (pc = "styling" \/ failure = "Could not find root element")
        /\ Verified => outcome # "pass"

C7_Witness ==
    /\ check(storyContext) = "expectStoryToMatchComponentSnapshot"
    /\ ~IsSet(page.root)
    /\ pc = "failed"
    /\ failure = "Could not find root element"
    /\ themeIdx = 1


\* the steps of one verification in the order the claim gives them: the waits,
\* then for each theme the styling (none in full-page mode), capture, comparison
ReadinessSteps ==
    <<"getStoryContext", "postVisit", "waitForPageReady", "stopAnimations">>
    \o (IF waitForLoadersToDisappear(storyContext) THEN <<"waitForLoaders">> ELSE <<>>)
    \o (IF waitForSelector(storyContext) THEN <<"waitForSelector">> ELSE <<>>)
    \o <<"waitForTimeout", "waitForImages">>

ThemePassSteps ==
    <<"setTheme">>
    \o (IF check(storyContext) = "expectStoryToMatchFullPageSnapshot"
        THEN <<>> ELSE <<"styling">>)
    \o <<"screenshot", "compare">>

VerificationSteps == ReadinessSteps \o ThemePassSteps \o ThemePassSteps

IsPrefix(a, b) == Len(a) <= Len(b) /\ a = SubSeq(b, 1, Len(a))

\* C8: the steps of a verification complete strictly in the order page-ready
\* wait, loader wait (if enabled), custom-selector wait (if configured), settle
\* delay, image wait, then per theme styling, capture and comparison; every
\* screenshot is taken after all the waits have completed.
C8_StepsInOrder ==
    /\ IsPrefix(log, VerificationSteps)
    /\ \A c \in 1..Len(captures) : IsPrefix(ReadinessSteps, captures[c].log)

C8_Witness ==
    /\ waitForLoadersToDisappear(storyContext)
    /\ waitForSelector(storyContext)
    /\ Len(captures) = 2
    /\ log = VerificationSteps

Count(seq, x) == Cardinality({i \in DOMAIN seq : seq[i] = x})

\* C9: the animation-disabling class is applied once per verification, before any
\* capture; the themes are processed in the order light, dark, and the body's
\* theme attribute is changed to dark only after the light pass's capture and
\* comparison are over.
C9_ThemesInOrder ==
    /\ Count(log, "stopAnimations") <= 1
    /\ \A c \in 1..Len(captures) :
        /\ Count(captures[c].log, "stopAnimations") = 1
        /\ "storybook-test-runner" \in captures[c].page.bodyClasses
        /\ captures[c].theme = <<"light", "dark">>[c]
        /\ captures[c].page.theme = captures[c].theme
    /\ themeIdx = 1 => (page.theme = "light" /\ Len(captures) <= 1)
    /\ themeIdx = 2 =>
        /\ page.theme = "dark"
        /\ Len(captures) >= 1 /\ captures[1].theme = "light"
        /\ Len(results) >= 1 /\ results[1].theme = "light" /\ results[1].pass
    /\ Len(captures) <= 2

C9_Witness ==
    /\ Len(captures) = 2
    /\ captures[1].page.theme = "light"
    /\ captures[2].page.theme = "dark"
    /\ Count(log, "stopAnimations") = 1
    /\ pc = "done"

\* C10, safety part: a failed attempt is followed by a whole new run of the test,
\* from its first step, or by the final failure.
RetryRestarts ==
    pc = "failed" =>
        \/ /\ pc' = "getStoryContext" /\ log' = <<>> /\ captures' = <<>> /\ results' = <<>>
           /\ attempt' = attempt + 1 /\ attempt <= 3
        \/ /\ pc' = "done" /\ outcome' = "fail" /\ attempt = 4 /\ attempt' = attempt

\* C10: a failed verification is re-run whole, at most 3 times after the first
\* attempt; every task terminates, passing if an attempt passes and failing once
\* the retries are used up.
C10_BoundedRetries ==
    /\ [](attempt \in 1..4)
    /\ [](outcome = "fail" => (attempt = 4 /\ failure # "none"))
    /\ [](outcome = "pass" => failure = "none")
    /\ [][RetryRestarts]_vars
    /\ <>(pc = "done" /\ outcome \in {"pass", "fail"})

C10_Witness ==
    /\ pc = "done"
    /\ outcome = "fail"
    /\ attempt = 4


\* the current browser is in the story's snapshotBrowsers, ['chromium'] if unset
InSnapshotBrowsers ==
    IF storyContext.testOptions.snapshotBrowsers = <<>>
    THEN browser = "chromium"
    ELSE browser \in storyContext.testOptions.snapshotBrowsers[1]

\* C11: postVisit, once it has the story's context, runs the snapshot
\* verification if and only if the current browser is in snapshotBrowsers
\* (default ['chromium']); in any other browser the visit ends without a wait, a
\* screenshot or a comparison, and without failing. (Without the story's context
\* postVisit throws before it looks at the browser.)
C11_SnapshotOnlyInListedBrowsers ==
    /\ ~InSnapshotBrowsers =>
        /\ IsPrefix(log, <<"getStoryContext", "postVisit">>)
        /\ captures = <<>> /\ results = <<>>
        /\ failure \in {"none", "getStoryContext failed"}
        /\ Len(log) = 1 => (pc = "postVisit" /\ failure = "none")
        /\ Len(log) = 2 => (pc = "done" /\ outcome = "pass" /\ failure = "none")
    /\ (InSnapshotBrowsers /\ Len(log) >= 2) =>
        /\ pc \notin {"setup", "getStoryContext", "postVisit"}
        /\ pc = "done" => (failure # "none" \/ Len(captures) = 2)
    /\ failure = "getStoryContext failed" =>
        (log = <<>> /\ captures = <<>> /\ results = <<>> /\ outcome # "pass")

C11_Witness ==
    /\ storyContext.testOptions.snapshotBrowsers = <<>>
    /\ browser = "webkit"
    /\ pc = "done"
    /\ outcome = "pass"
    /\ log = <<"getStoryContext", "postVisit">>

\* the capture mode the story's parameters select
ExpectedMode ==
    LET fullscreen == storyContext.layout = <<"fullscreen">>
        exclude == storyContext.testOptions.excludeNavigationFromSnapshot = <<TRUE>>
    IN  IF fullscreen /\ ~exclude THEN "fullPage"
        ELSE IF fullscreen /\ exclude THEN "scene"
        ELSE "component"

\* the capture mode a screenshot was taken in: of the page, of 'main', or of the
\* component's target element
ModeOfCapture(c) ==
    IF c.locator = thePage THEN "fullPage"
    ELSE IF c.locator = mainLocator THEN "scene"
    ELSE "component"

\* C12: every story is captured in exactly one mode, the same in both theme
\* passes: full page iff layout is 'fullscreen' and excludeNavigationFromSnapshot
\* is false or unset, scene iff layout is 'fullscreen' and the option is true,
\* component for any other or no layout whatever the option.
C12_OneCaptureMode ==
    /\ \A c \in 1..Len(captures) :
        /\ ModeOfCapture(captures[c]) = ExpectedMode
        /\ captures[c].options.omitBackground <=> ExpectedMode = "component"
        /\ Count(captures[c].log, "styling") = c * (IF ExpectedMode = "fullPage" THEN 0 ELSE 1)
    /\ stylePasses > 0 => ExpectedMode = "component"
    /\ pc = "styling" => ExpectedMode # "fullPage"

C12_Witness ==
    /\ storyContext.layout = <<>>
    /\ storyContext.testOptions.excludeNavigationFromSnapshot = <<TRUE>>
    /\ Len(captures) = 2
    /\ ModeOfCapture(captures[1]) = "component"
    /\ ModeOfCapture(captures[2]) = "component"


\* C13: in component mode the styling of a theme pass sets the body background to
\* transparent if and only if the theme is 'legacy' and to the themed variable
\* for every other theme, before the capture, which is taken with omitBackground.
C13_ComponentBackground ==
    /\ \A theme \in SnapshotTheme :
        /\ bodyBackground(theme) = "transparent" <=> theme = "legacy"
        /\ theme # "legacy" => bodyBackground(theme) = "var(--bg-3000)"
    /\ \A c \in 1..Len(captures) :
        ModeOfCapture(captures[c]) = "component" =>
            /\ captures[c].options = [omitBackground |-> TRUE]
            /\ captures[c].log[Len(captures[c].log)] = "styling"
            /\ captures[c].page.background =
                 (IF captures[c].theme = "legacy" THEN "transparent" ELSE "var(--bg-3000)")
    /\ (pc = "screenshot" /\ ExpectedMode = "component") =>
            page.background = "var(--bg-3000)"

C13_Witness ==
    /\ Len(captures) = 2
    /\ ModeOfCapture(captures[2]) = "component"
    /\ captures[2].theme = "dark"
    /\ captures[2].page.background = "var(--bg-3000)"
    /\ captures[2].options.omitBackground

\* the attempt ended in the loader wait's timeout
LoaderWaitTimedOut ==
    /\ failure = "TimeoutError"
    /\ log[Len(log)] = "stopAnimations"
    /\ waitForLoadersToDisappear(storyContext)

\* C14: the per-test timeout (15000 ms) exceeds the browser-action timeout
\* (10000 ms), which is installed on the browser context before any wait starts;
\* the loader wait lasts at most 1000 ms, less than either, so a loader wait that
\* times out has failed 1000 ms after it started.
C14_TimeoutsOrdered ==
    /\ pc # "setup" => jest.timeout = 15000
    /\ Len(log) >= 2 =>
        /\ log[2] = "postVisit"
        /\ defaultTimeout = <<10000>>
        /\ jest.timeout > defaultTimeout[1]
    /\ IsSet(loaderWaited) =>
        /\ loaderWaited[1] <= 1000
        /\ loaderWaited[1] < defaultTimeout[1]
        /\ loaderWaited[1] < jest.timeout
    /\ (pc \in {"failed", "done"} /\ LoaderWaitTimedOut) => loaderWaited = <<1000>>

C14_Witness ==
    /\ pc = "failed"
    /\ LoaderWaitTimedOut
    /\ loaderWaited = <<1000>>
    /\ defaultTimeout = <<10000>>
    /\ jest.timeout = 15000

\* C15 as stated: a comparison that measures a dissimilarity of exactly 1.0%
\* (100 hundredths of a percent) fails.
C15_ExactThresholdFails ==
    \A i \in 1..Len(results) : results[i].measured = <<100>> => ~results[i].pass

\* C15, amended: a comparison against a stored reference fails if and only if the
\* measured dissimilarity exceeds 1.0%; at exactly 1.0% it passes.
C15_FailsIffAboveThreshold ==
    \A i \in 1..Len(results) :
        /\ IsSet(results[i].measured) => (results[i].pass <=> results[i].measured[1] <= 100)
        /\ ~IsSet(results[i].measured) => results[i].pass
        /\ (i = Len(results) /\ results[i].measured = <<100>>) => failure = "none"

C15_Witness ==
    /\ Len(results) = 2
    /\ results[2].measured = <<100>>
    /\ results[2].pass
    /\ outcome = "pass"


\* C16: the module rules webpackFinal returns are all rules with a 'test' whose
\* string form contains '.mdx'; the other rules of the base configuration are
\* filtered out.
C16_OnlyMdxRules ==
    IsSet(merged) =>
        \A i \in 1..Len(merged[1].module.rules) :
            /\ IsSet(merged[1].module.rules[i].test)
            /\ includes(merged[1].module.rules[i].test[1], <<".", "m", "d", "x">>)


\* width and height of the root element's box
boxSize(rootEl) ==
    LET box == getBoundingClientRect(rootEl)
    IN  <<box.right - box.left, box.bottom - box.top>>

\* C17: the component styling is idempotent on the page: applied again for the
\* dark theme to the page the light pass left, with the same popovers, it leaves
\* the root element's width and height as the light pass set them.
C17_StylingIdempotent ==
    (stylePasses = 1 /\ IsSet(page.root)) =>
        boxSize(componentStyling(page, Themes[2]).root[1]) = boxSize(page.root[1])

\* C17 away from C3's case: with no popover reaching left of or above the root
C17_IdempotentRightAndBelow ==
    (/\ stylePasses = 1
     /\ IsSet(page.root)
     /\ \A i \in 1..Len(page.popovers) :
          /\ page.popovers[i].left >= page.root[1].left
          /\ page.popovers[i].top >= page.root[1].top) =>
        boxSize(componentStyling(page, Themes[2]).root[1]) = boxSize(page.root[1])


\* the identifier that carries the suffix of `theme`, and of the browser unless
\* it is chromium
identifierWithThemeSuffix(theme) ==
    storyContext.id \o "--" \o theme \o (IF browser = "chromium" THEN "" ELSE "--" \o browser)

\* C18: at every capture the body's theme attribute is the theme whose suffix
\* the capture's snapshot identifier carries; that theme is never 'legacy', so
\* every identifier carries '--light' or '--dark'; a verification that passes
\* has captured exactly two screenshots and ends with the attribute set to 'dark'.
C18_AttributeMatchesIdentifier ==
    /\ \A c \in 1..Len(captures) : captures[c].page.theme \in {"light", "dark"}
    /\ \A i \in 1..Len(results) :
        /\ results[i].captured \in 1..Len(captures)
        /\ results[i].identifier =
               identifierWithThemeSuffix(captures[results[i].captured].page.theme)
    /\ (Verified /\ outcome = "pass") =>
        /\ Len(captures) = 2
        /\ Len(results) = 2
        /\ page.theme = "dark"

C18_Witness ==
    /\ Verified
    /\ outcome = "pass"
    /\ Len(captures) = 2
    /\ browser # "chromium"
    /\ results[1].identifier = storyContext.id \o "--light--" \o browser
    /\ results[2].identifier = storyContext.id \o "--dark--" \o browser
    /\ captures[2].page.theme = "dark"


====
